---------------------------- MODULE Spec2Model ----------------------------
(***************************************************************************)
(* A model of mcp_youtube_transcript: the get_transcript tool, the         *)
(* memoizing _get_transcript behind it, and a client that pages through a  *)
(* transcript by cursor.                                                   *)
(*                                                                         *)
(* Python strings are modelled as sequences of one-character strings, so   *)
(* that len(), slicing, "\n".join, str()/int() and URL parsing are         *)
(* computed the way the code computes them.  None is the one-element       *)
(* sequence <<"None">>, whose element is no character, so it differs from  *)
(* every Python string.                                                    *)
(***************************************************************************)
EXTENDS Integers, Sequences, FiniteSets, TLC

None == <<"None">>

NL == "\n"

(***************************************************************************)
(* String helpers (str methods used by the code and by urllib.parse).      *)
(***************************************************************************)

\* s[i:] for a 0-based i >= 0
From(s, i) == SubSeq(s, i + 1, Len(s))

\* s[:i] for a 0-based i >= 0
Upto(s, i) == SubSeq(s, 1, i)

\* s.find(c) + 1 for a single character c: the 1-based position of the
\* first occurrence, 0 when there is none
Find(s, c) ==
    IF \E i \in 1..Len(s) : s[i] = c
    THEN CHOOSE i \in 1..Len(s) : s[i] = c /\ \A j \in 1..(i - 1) : s[j] # c
    ELSE 0

\* s.rfind(c) + 1
RFind(s, c) ==
    IF \E i \in 1..Len(s) : s[i] = c
    THEN CHOOSE i \in 1..Len(s) : s[i] = c /\ \A j \in (i + 1)..Len(s) : s[j] # c
    ELSE 0

\* the least 1-based position of a character of the set cs, Len(s)+1 if none
FindAny(s, cs) ==
    IF \E i \in 1..Len(s) : s[i] \in cs
    THEN CHOOSE i \in 1..Len(s) : s[i] \in cs /\ \A j \in 1..(i - 1) : s[j] \notin cs
    ELSE Len(s) + 1

\* s.split(c): the fields of s between occurrences of c
RECURSIVE Split(_, _)
Split(s, c) ==
    IF Find(s, c) = 0 THEN <<s>>
    ELSE <<Upto(s, Find(s, c) - 1)>> \o Split(From(s, Find(s, c)), c)

\* s.lstrip(c)
RECURSIVE lstrip(_, _)
lstrip(s, c) ==
    IF Len(s) > 0 /\ s[1] = c THEN lstrip(Tail(s), c) ELSE s

\* sep.join(parts), sep a single character
RECURSIVE join(_, _)
join(sep, parts) ==
    IF Len(parts) = 0 THEN <<>>
    ELSE IF Len(parts) = 1 THEN parts[1]
    ELSE parts[1] \o <<sep>> \o join(sep, Tail(parts))

UpperCase == [A |-> "a", B |-> "b", C |-> "c", E |-> "e", O |-> "o",
              T |-> "t", U |-> "u", V |-> "v", W |-> "w", Y |-> "y"]

\* s.lower(), over the capital letters the modelled inputs use
lower(s) ==
    [i \in 1..Len(s) |-> IF s[i] \in DOMAIN UpperCase THEN UpperCase[s[i]] ELSE s[i]]

Letters == {"a", "b", "c", "e", "h", "m", "o", "p", "s", "t", "u", "v", "w", "y"}
             \cup DOMAIN UpperCase

DigitChars == <<"0", "1", "2", "3", "4", "5", "6", "7", "8", "9">>

DigitSet == {DigitChars[i] : i \in 1..10}

DigitValue(c) == (CHOOSE i \in 1..10 : DigitChars[i] = c) - 1

\* str(n) for an integer n >= 0
RECURSIVE str(_)
str(n) ==
    IF n < 10 THEN <<DigitChars[n + 1]>>
    ELSE str(n \div 10) \o <<DigitChars[(n % 10) + 1]>>


\* int(s): the value of an optional sign and decimal digits.  The result is
\* [ok, neg, digits]: ok is FALSE where int() raises ValueError; digits are
\* the decimal digits without leading zeros, so that values beyond the
\* machine word are still compared exactly.
RECURSIVE StripZeros(_)
StripZeros(ds) ==
    IF Len(ds) > 1 /\ ds[1] = "0" THEN StripZeros(Tail(ds)) ELSE ds

IntOfDigits(minus, ds) ==
    IF Len(ds) > 0 /\ \A i \in 1..Len(ds) : ds[i] \in DigitSet
    THEN [ok |-> TRUE, neg |-> minus /\ StripZeros(ds) # <<"0">>,
          digits |-> StripZeros(ds)]
    ELSE [ok |-> FALSE, neg |-> FALSE, digits |-> <<>>]

int(s) ==
    IF Len(s) > 0 /\ s[1] \in {"+", "-"}
    THEN IntOfDigits(s[1] = "-", Tail(s))
    ELSE IntOfDigits(FALSE, s)

\* the digits of sys.maxsize = 2^63 - 1 on the 64-bit builds the server runs on
sys_maxsize ==
    <<"9","2","2","3","3","7","2","0","3","6","8","5","4","7","7","5","8","0","7">>

\* a > b for two digit strings without leading zeros
RECURSIVE DigitsGreater(_, _)
DigitsGreater(a, b) ==
    IF Len(a) # Len(b) THEN Len(a) > Len(b)
    ELSE IF Len(a) = 0 THEN FALSE
    ELSE IF a[1] # b[1] THEN DigitValue(a[1]) > DigitValue(b[1])
    ELSE DigitsGreater(Tail(a), Tail(b))

\* the number a digit string denotes
RECURSIVE DigitsValue(_)
DigitsValue(ds) ==
    IF Len(ds) = 0 THEN 0
    ELSE 10 * DigitsValue(Upto(ds, Len(ds) - 1)) + DigitValue(ds[Len(ds)])

(***************************************************************************)
(* urllib.parse as get_transcript uses it: urlparse(url).hostname,         *)
(* urlparse(url).path, urlparse(url).query and parse_qs(query).            *)
(* urlsplit cuts the URL from the left: scheme, netloc, then fragment and  *)
(* query off what remains; each step is an operator on what the steps      *)
(* before it have cut.                                                     *)
(***************************************************************************)

SchemeChars == Letters \cup DigitSet \cup {"+", "-", "."}

\* if '?' in url: url, query = url.split('?', 1)
SplitQueryAt(scheme, netloc, rest, fragment, qmark) ==
    [scheme |-> scheme, netloc |-> netloc, fragment |-> fragment,
     query |-> IF qmark > 0 THEN From(rest, qmark) ELSE <<>>,
     path  |-> IF qmark > 0 THEN Upto(rest, qmark - 1) ELSE rest]

\* if '#' in url: url, fragment = url.split('#', 1)
SplitFragmentAt(scheme, netloc, rest, hash) ==
    IF hash > 0
    THEN SplitQueryAt(scheme, netloc, Upto(rest, hash - 1), From(rest, hash),
                      Find(Upto(rest, hash - 1), "?"))
    ELSE SplitQueryAt(scheme, netloc, rest, <<>>, Find(rest, "?"))

\* netloc, url = _splitnetloc(url, 2): up to the first of / ? #
SplitNetlocAt(scheme, afterSlashes, delim) ==
    SplitFragmentAt(scheme, Upto(afterSlashes, delim - 1),
                    From(afterSlashes, delim - 1),
                    Find(From(afterSlashes, delim - 1), "#"))

\* if url[:2] == '//'
SplitNetloc(scheme, rest) ==
    IF Len(rest) >= 2 /\ rest[1] = "/" /\ rest[2] = "/"
    THEN SplitNetlocAt(scheme, From(rest, 2), FindAny(From(rest, 2), {"/", "?", "#"}))
    ELSE SplitFragmentAt(scheme, <<>>, rest, Find(rest, "#"))

\* the scheme is what precedes the first ":" when that is a letter followed
\* by scheme characters
SplitSchemeAt(url, colon) ==
    IF /\ colon > 1
       /\ url[1] \in Letters
       /\ \A i \in 1..(colon - 1) : url[i] \in SchemeChars
    THEN SplitNetloc(lower(Upto(url, colon - 1)), From(url, colon))
    ELSE SplitNetloc(<<>>, url)

\* urlsplit: [scheme, netloc, path, query, fragment]
urlsplit(url) == SplitSchemeAt(url, Find(url, ":"))

\* _splitparams: ";params" is cut off the last path segment
SplitParamsAt(sp, slash, semi) ==
    [sp EXCEPT !.path = IF semi > 0 THEN Upto(sp.path, slash + semi - 1) ELSE sp.path]

SplitParamsFrom(sp, slash) ==
    SplitParamsAt(sp, slash, Find(From(sp.path, slash), ";"))

SplitParams(sp) == SplitParamsFrom(sp, RFind(sp.path, "/"))

\* urlparse: urlsplit, then _splitparams on the path
urlparse(url) == SplitParams(urlsplit(url))

HostOf(hostinfo, colon) ==
    IF colon > 0 THEN Upto(hostinfo, colon - 1) ELSE hostinfo

LowerOrNone(host) == IF Len(host) = 0 THEN None ELSE lower(host)

HostInfo(netloc) == From(netloc, RFind(netloc, "@"))

\* ParseResult.hostname: the netloc without userinfo and port, lower-cased;
\* None when it is empty
hostname(parsed) ==
    LowerOrNone(HostOf(HostInfo(parsed.netloc), Find(HostInfo(parsed.netloc), ":")))

\* the percent escapes the modelled inputs use: %76 is "v", %20 is " "
HexTable == [h \in {<<"7", "6">>, <<"2", "0">>} |->
                IF h = <<"7", "6">> THEN "v" ELSE " "]

\* urllib.parse.unquote
RECURSIVE unquote(_)
unquote(s) ==
    IF Len(s) = 0 THEN <<>>
    ELSE IF s[1] = "%" /\ Len(s) >= 3 /\ <<s[2], s[3]>> \in DOMAIN HexTable
         THEN <<HexTable[<<s[2], s[3]>>]>> \o unquote(From(s, 3))
         ELSE <<s[1]>> \o unquote(Tail(s))

\* s.replace("+", " ")
PlusToSpace(s) == [i \in 1..Len(s) |-> IF s[i] = "+" THEN " " ELSE s[i]]

\* one "name=value" field of parse_qsl: the pair, or nothing for a field
\* without "=" or with a blank value (keep_blank_values=False)
PairOf(field, eq) ==
    IF eq = 0 \/ Len(From(field, eq)) = 0
    THEN <<>>
    ELSE <<[name  |-> unquote(PlusToSpace(Upto(field, eq - 1))),
            value |-> unquote(PlusToSpace(From(field, eq)))]>>

RECURSIVE PairsOf(_)
PairsOf(fields) ==
    IF Len(fields) = 0 THEN <<>>
    ELSE PairOf(fields[1], Find(fields[1], "=")) \o PairsOf(Tail(fields))

\* parse_qsl(query): the (name, value) pairs in order
parse_qsl(query) ==
    IF Len(query) = 0 THEN <<>> ELSE PairsOf(Split(query, "&"))

\* parse_qs(query).get(name): the values of `name` in order.  parse_qs holds
\* no empty list, so the empty sequence stands for get's None.
RECURSIVE ValuesOf(_, _)
ValuesOf(pairs, name) ==
    IF Len(pairs) = 0 THEN <<>>
    ELSE (IF pairs[1].name = name THEN <<pairs[1].value>> ELSE <<>>)
            \o ValuesOf(Tail(pairs), name)

parse_qs_get(query, name) == ValuesOf(parse_qsl(query), name)

(***************************************************************************)
(* The server's state and its collaborators.                               *)
(***************************************************************************)

VARIABLES
    response_limit,  \* server(response_limit=...): <<>> for None, <<n>> for n
    provider,        \* the transcript provider: video id -> language -> lines
    cache,           \* _get_transcript's lru_cache, least recently used first
    page_gets,       \* key -> number of title page requests made for it
    api_fetches,     \* key -> number of ytt_api.fetch calls made for it
    request,         \* the last tool call: its arguments and what it passed on
    response,        \* the last tool call's outcome (NoResponse before the first)
    calls,           \* number of tool calls the session has sent
    client,          \* the paging client: [pc, cursor, transcript, rounds]
    inflight,        \* tool calls received and not yet run
    overlap,         \* history: key -> the fetches made before, and the
                     \* responses given since, two calls for it were first
                     \* in flight with the key not cached
    recency          \* history: [since, gap], the calls for other videos
                     \* since the last call for the video of URL_WATCH, and
                     \* the value `since` had when that call came

vars == <<response_limit, provider, cache, page_gets, api_fetches,
          request, response, calls, client, inflight, overlap, recency>>

\* functools.lru_cache's default maxsize, which the bare @lru_cache gets
maxsize == 128

YOUTU_BE == <<"y","o","u","t","u",".","b","e">>

EN == <<"e", "n">>

PLACEHOLDER_TITLE == <<"T","r","a","n","s","c","r","i","p","t">>

INVALID_URL_PREFIX ==
    <<"c","o","u","l","d","n","'","t"," ","f","i","n","d"," ","a"," ","v","i","d","e","o"," ","I","D">>
    \o <<" ","f","r","o","m"," ","t","h","e"," ","p","r","o","v","i","d","e","d"," ","U","R","L",":"," ">>

\* f"couldn't find a video ID from the provided URL: {url}."
InvalidUrlMessage(url) == INVALID_URL_PREFIX \o url \o <<".">>

Ok(title, transcript, next_cursor) ==
    [isError |-> FALSE, error |-> "", message |-> None,
     title |-> title, transcript |-> transcript, next_cursor |-> next_cursor]

\* an exception raised in the tool, which FastMCP reports as isError
Err(type, message) ==
    [isError |-> TRUE, error |-> type, message |-> message,
     title |-> None, transcript |-> None, next_cursor |-> None]

(***************************************************************************)
(* _get_transcript and its lru_cache.                                      *)
(***************************************************************************)

\* Languages without the English fallback
LanguagesAsAsked(lang) == <<lang>>

\* the language list of _get_transcript
Languages(lang) == IF lang = EN THEN <<EN>> ELSE <<lang, EN>>

\* the positions of the listed languages the video has a transcript in
Available(prov, video_id, languages) ==
    {i \in 1..Len(languages) : languages[i] \in DOMAIN prov[video_id]}

Least(S) == CHOOSE i \in S : \A j \in S : i <= j

\* YouTubeTranscriptApi.fetch(video_id, languages): the transcript in the
\* first listed language the video has; [ok |-> FALSE] where it raises
ytt_api_fetch(prov, video_id, languages) ==
    IF video_id \notin DOMAIN prov
    THEN [ok |-> FALSE, error |-> "VideoUnavailable", lines |-> <<>>]
    ELSE IF Available(prov, video_id, languages) = {}
    THEN [ok |-> FALSE, error |-> "NoTranscriptFound", lines |-> <<>>]
    ELSE [ok |-> TRUE, error |-> "",
          lines |-> prov[video_id][languages[Least(Available(prov, video_id, languages))]]]

\* soup.title.string if soup.title and soup.title.string else "Transcript"
TitleOf(page) == IF page.title = None \/ page.title = <<>>
                 THEN PLACEHOLDER_TITLE ELSE page.title

NoValue == [title |-> None, lines |-> <<>>]

NoCall == [made |-> FALSE, video_id |-> None, languages |-> <<>>]

\* lines 89-90, on what the provider answered
BodyResult(page, call, fetched) ==
    IF fetched.ok
    THEN [ok |-> TRUE, error |-> "",
          value |-> [title |-> TitleOf(page), lines |-> fetched.lines],
          page_got |-> TRUE, api_call |-> call]
    ELSE [ok |-> FALSE, error |-> fetched.error, value |-> NoValue,
          page_got |-> TRUE, api_call |-> call]

\* lines 82-90 with the language list built: the page is requested, then
\* raise_for_status, then the provider is called
BodyWith(prov, video_id, languages, page) ==
    IF page.status >= 400
    THEN [ok |-> FALSE, error |-> "HTTPError", value |-> NoValue,
          page_got |-> TRUE, api_call |-> NoCall]
    ELSE BodyResult(page,
                    [made |-> TRUE, video_id |-> video_id, languages |-> languages],
                    ytt_api_fetch(prov, video_id, languages))

\* The body of _get_transcript on the page the HTTP client returns:
\* [ok, error, value, page_got, api_call]
get_transcript_body(prov, video_id, lang, page) ==
    BodyWith(prov, video_id, Languages(lang), page)

CacheKey(video_id, lang) == <<video_id, lang>>

CacheIndex(c, key) ==
    IF \E i \in 1..Len(c) : c[i].key = key
    THEN CHOOSE i \in 1..Len(c) : c[i].key = key
    ELSE 0

Without(c, i) == SubSeq(c, 1, i - 1) \o SubSeq(c, i + 1, Len(c))

\* CacheInsert that makes room one entry early
CacheInsertEarly(c, entry) ==
    IF Len(c) >= maxsize - 1 THEN Tail(c) \o <<entry>> ELSE c \o <<entry>>

\* lru_cache on a miss that returned: the least recently used entry makes
\* room once maxsize entries are held
CacheInsert(c, entry) ==
    IF Len(c) >= maxsize THEN Tail(c) \o <<entry>> ELSE c \o <<entry>>

\* a hit returns the stored value and makes the entry the most recently used
CacheHit(c, i) ==
    [ok |-> TRUE, error |-> "", value |-> c[i].value,
     page_got |-> FALSE, api_call |-> NoCall,
     cache |-> Without(c, i) \o <<c[i]>>]

\* a miss runs the body and stores what it returns; an exception is not stored
CacheMiss(c, key, run) ==
    [ok |-> run.ok, error |-> run.error, value |-> run.value,
     page_got |-> run.page_got, api_call |-> run.api_call,
     cache |-> IF run.ok
               THEN CacheInsert(c, [key |-> key, value |-> run.value])
               ELSE c]

CacheLookup(c, prov, video_id, lang, page, i) ==
    IF i > 0 THEN CacheHit(c, i)
    ELSE CacheMiss(c, CacheKey(video_id, lang),
                   get_transcript_body(prov, video_id, lang, page))

\* @lru_cache _get_transcript(ctx, video_id, lang)
get_transcript_cached(c, prov, video_id, lang, page) ==
    CacheLookup(c, prov, video_id, lang, page,
                CacheIndex(c, CacheKey(video_id, lang)))

(***************************************************************************)
(* The get_transcript tool.                                                *)
(***************************************************************************)

\* VideoIdOfQuery with a default in place of the error, as get("v", [""])
VideoIdOfQueryDefault(q) ==
    [ok |-> TRUE, video_id |-> IF Len(q) = 0 THEN <<>> ELSE q[1]]

\* lines 135-138: q = parse_qs(parsed_url.query).get("v")
VideoIdOfQuery(q) ==
    IF Len(q) = 0
    THEN [ok |-> FALSE, video_id |-> None]
    ELSE [ok |-> TRUE, video_id |-> q[1]]

\* lines 132-138 on the parsed URL
VideoIdOf(parsed_url) ==
    IF hostname(parsed_url) = YOUTU_BE
    THEN [ok |-> TRUE, video_id |-> lstrip(parsed_url.path, "/")]
    ELSE VideoIdOfQuery(parse_qs_get(parsed_url.query, <<"v">>))

\* The video id of a URL: [ok, video_id]; ok is FALSE where the tool raises
\* ValueError("couldn't find a video ID ...")
VideoId(url) == VideoIdOf(urlparse(url))

\* Unbounded with the comparison strict: a limit of 0 taken for a limit
UnboundedNegative(limit) == Len(limit) = 0 \/ limit[1] < 0

\* response_limit is None or response_limit <= 0
Unbounded(limit) == Len(limit) = 0 \/ limit[1] <= 0

\* Walk with the cursor set past the line that did not fit
RECURSIVE WalkSkipping(_, _, _, _)
WalkSkipping(transcripts, i, res, limit) ==
    IF i >= Len(transcripts)
    THEN [res |-> res, cursor |-> None]
    ELSE IF Len(res) + Len(transcripts[i + 1]) + 1 > limit
    THEN [res |-> res, cursor |-> str(i + 1)]
    ELSE WalkSkipping(transcripts, i + 1, res \o transcripts[i + 1] \o <<NL>>, limit)

\* Walk with each line measured alone, the text gathered so far left out
RECURSIVE WalkUncounted(_, _, _, _)
WalkUncounted(transcripts, i, res, limit) ==
    IF i >= Len(transcripts)
    THEN [res |-> res, cursor |-> None]
    ELSE IF Len(transcripts[i + 1]) + 1 > limit
    THEN [res |-> res, cursor |-> str(i)]
    ELSE WalkUncounted(transcripts, i + 1, res \o transcripts[i + 1] \o <<NL>>, limit)

\* The for loop over islice(enumerate(transcripts), start, None), from the
\* 0-based index i with res accumulated so far: [res, cursor]
RECURSIVE Walk(_, _, _, _)
Walk(transcripts, i, res, limit) ==
    IF i >= Len(transcripts)
    THEN [res |-> res, cursor |-> None]
    ELSE IF Len(res) + Len(transcripts[i + 1]) + 1 > limit
    THEN [res |-> res, cursor |-> str(i)]
    ELSE Walk(transcripts, i + 1, res \o transcripts[i + 1] \o <<NL>>, limit)

\* res[:-1]
DropLast(res) == IF Len(res) = 0 THEN <<>> ELSE Upto(res, Len(res) - 1)

\* StartIndex one line early, as a 1-based cursor would be read
StartIndexOneEarly(transcripts, start) ==
    IF DigitsGreater(start.digits, str(Len(transcripts)))
    THEN Len(transcripts)
    ELSE IF DigitsValue(start.digits) = 0 THEN 0
    ELSE DigitsValue(start.digits) - 1

\* The index islice starts at, capped at the number of lines: a start past
\* the end skips every line, whatever its size
StartIndex(transcripts, start) ==
    IF DigitsGreater(start.digits, str(Len(transcripts)))
    THEN Len(transcripts)
    ELSE DigitsValue(start.digits)

\* int(next_cursor or 0)
StartOf(next_cursor) ==
    IF next_cursor = None \/ next_cursor = <<>>
    THEN int(<<"0">>) ELSE int(next_cursor)

\* line 153
Page(title, out) == Ok(title, DropLast(out.res), out.cursor)

\* lines 145-153 with the cursor parsed: int() raises on a non-number, islice
\* on a negative start or one past sys.maxsize
PaginateFrom(title, transcripts, start, limit) ==
    IF ~start.ok
    THEN Err("ValueError", None)
    ELSE IF start.neg \/ DigitsGreater(start.digits, sys_maxsize)
    THEN Err("ValueError", None)
    ELSE Page(title, Walk(transcripts, StartIndex(transcripts, start), <<>>, limit))

\* lines 142-153: the response for the cached (title, transcripts)
Paginate(title, transcripts, next_cursor, limit) ==
    IF Unbounded(limit)
    THEN Ok(title, join(NL, transcripts), None)
    ELSE PaginateFrom(title, transcripts, StartOf(next_cursor), limit[1])

\* lines 140-153 on what _get_transcript returned or raised
ToolResult(got, id, next_cursor, limit) ==
    [response |-> IF got.ok
                  THEN Paginate(got.value.title, got.value.lines, next_cursor, limit)
                  ELSE Err(got.error, None),
     cache |-> got.cache, resolved |-> TRUE, video_id |-> id.video_id,
     page_got |-> got.page_got, api_call |-> got.api_call]

ToolCallOn(c, prov, limit, url, lang, next_cursor, page, id) ==
    IF ~id.ok
    THEN [response |-> Err("ValueError", InvalidUrlMessage(url)),
          cache |-> c, resolved |-> FALSE, video_id |-> None,
          page_got |-> FALSE, api_call |-> NoCall]
    ELSE ToolResult(get_transcript_cached(c, prov, id.video_id, lang, page),
                    id, next_cursor, limit)

\* get_transcript(ctx, url, lang, next_cursor) with the cache c, on the page
\* the HTTP client would return: the response and what the call did
ToolCall(c, prov, limit, url, lang, next_cursor, page) ==
    ToolCallOn(c, prov, limit, url, lang, next_cursor, page, VideoId(url))

Count(f, key) == IF key \in DOMAIN f THEN f[key] ELSE 0

Bump(f, key) ==
    [k \in DOMAIN f \cup {key} |-> IF k = key THEN Count(f, key) + 1 ELSE f[k]]

\* the state after a run of the tool that came out as `out`
Served(url, lang, next_cursor, out, key) ==
    /\ cache' = out.cache
    /\ page_gets' = IF out.page_got THEN Bump(page_gets, key) ELSE page_gets
    /\ api_fetches' = IF out.api_call.made THEN Bump(api_fetches, key)
                      ELSE api_fetches
    /\ request' = [url |-> url, lang |-> lang, next_cursor |-> next_cursor,
                   resolved |-> out.resolved, video_id |-> out.video_id,
                   page_got |-> out.page_got, api_call |-> out.api_call,
                   hit |-> out.resolved /\ CacheIndex(cache, key) > 0]
    /\ response' = out.response
    /\ UNCHANGED <<response_limit, provider>>

ServedAs(url, lang, next_cursor, out) ==
    Served(url, lang, next_cursor, out, CacheKey(out.video_id, lang))

\* One run of the tool, start to end: the handler has no await in it, so the
\* event loop runs it whole before any other call.
Serve(url, lang, next_cursor, page) ==
    ServedAs(url, lang, next_cursor,
             ToolCall(cache, provider, response_limit, url, lang, next_cursor, page))

(***************************************************************************)
(* Inputs.                                                                 *)
(***************************************************************************)

\* https://www.youtube.com/watch?v=abc
URL_WATCH ==
    <<"h","t","t","p","s",":","/","/","w","w","w",".","y","o","u","t","u",
      "b","e",".","c","o","m","/","w","a","t","c","h","?","v","=","a","b",
      "c">>

\* https://www.youtube.com/watch?vv=abc
URL_WRONG_PARAM ==
    <<"h","t","t","p","s",":","/","/","w","w","w",".","y","o","u","t","u",
      "b","e",".","c","o","m","/","w","a","t","c","h","?","v","v","=","a",
      "b","c">>

\* https://youtu.be/abc
URL_SHORT ==
    <<"h","t","t","p","s",":","/","/","y","o","u","t","u",".","b","e","/",
      "a","b","c">>

\* https://youtu.be/
URL_SHORT_BARE ==
    <<"h","t","t","p","s",":","/","/","y","o","u","t","u",".","b","e","/">>

\* https://youtu.be
URL_SHORT_NOPATH ==
    <<"h","t","t","p","s",":","/","/","y","o","u","t","u",".","b","e">>

\* https://YouTu.BE/xyz
URL_SHORT_UPPER ==
    <<"h","t","t","p","s",":","/","/","Y","o","u","T","u",".","B","E","/",
      "x","y","z">>

\* https://youtu.be:443//abc
URL_SHORT_PORT ==
    <<"h","t","t","p","s",":","/","/","y","o","u","t","u",".","b","e",":",
      "4","4","3","/","/","a","b","c">>

\* https://www.youtube.com/watch?t=1&v=xyz
URL_EXTRA ==
    <<"h","t","t","p","s",":","/","/","w","w","w",".","y","o","u","t","u",
      "b","e",".","c","o","m","/","w","a","t","c","h","?","t","=","1","&",
      "v","=","x","y","z">>

\* https://www.youtube.com/watch?v=
URL_BLANK ==
    <<"h","t","t","p","s",":","/","/","w","w","w",".","y","o","u","t","u",
      "b","e",".","c","o","m","/","w","a","t","c","h","?","v","=">>

\* https://www.youtube.com/watch
URL_NOQUERY ==
    <<"h","t","t","p","s",":","/","/","w","w","w",".","y","o","u","t","u",
      "b","e",".","c","o","m","/","w","a","t","c","h">>

\* https://www.youtube.com/watch?v=xyz&v=abc
URL_TWICE ==
    <<"h","t","t","p","s",":","/","/","w","w","w",".","y","o","u","t","u",
      "b","e",".","c","o","m","/","w","a","t","c","h","?","v","=","x","y",
      "z","&","v","=","a","b","c">>

\* https://www.youtube.com/watch#v=abc
URL_FRAGMENT ==
    <<"h","t","t","p","s",":","/","/","w","w","w",".","y","o","u","t","u",
      "b","e",".","c","o","m","/","w","a","t","c","h","#","v","=","a","b",
      "c">>

\* https://www.youtube.com/watch?v
URL_NOVALUE ==
    <<"h","t","t","p","s",":","/","/","w","w","w",".","y","o","u","t","u",
      "b","e",".","c","o","m","/","w","a","t","c","h","?","v">>

\* youtu.be/abc
URL_NOSCHEME ==
    <<"y","o","u","t","u",".","b","e","/","a","b","c">>

\* https://www.youtube.com/watch?V=abc
URL_CAPITAL ==
    <<"h","t","t","p","s",":","/","/","w","w","w",".","y","o","u","t","u",
      "b","e",".","c","o","m","/","w","a","t","c","h","?","V","=","a","b",
      "c">>

\* https://www.youtube.com/watch?%76=a+c
URL_ESCAPED ==
    <<"h","t","t","p","s",":","/","/","w","w","w",".","y","o","u","t","u",
      "b","e",".","c","o","m","/","w","a","t","c","h","?","%","7","6","=",
      "a","+","c">>

Urls == {URL_WATCH, URL_WRONG_PARAM, URL_SHORT, URL_SHORT_BARE,
         URL_SHORT_NOPATH, URL_SHORT_UPPER, URL_SHORT_PORT, URL_EXTRA,
         URL_BLANK, URL_NOQUERY, URL_TWICE, URL_FRAGMENT,
         URL_NOVALUE, URL_NOSCHEME, URL_CAPITAL, URL_ESCAPED}

ABC == <<"a", "b", "c">>

XYZ == <<"x", "y", "z">>

FR == <<"f", "r">>

XX == <<"x", "x">>

Langs == {EN, FR, XX}

\* what requests.get can come back with: the status and the <title> text
\* (None when the page has no title element)
Pages == {[status |-> 200, title |-> <<"T">>],
          [status |-> 200, title |-> None],
          [status |-> 404, title |-> None]}

GoodPage == [status |-> 200, title |-> <<"T">>]

\* bounds of the model
MaxLines == 3

MaxLimit == 4

MaxCalls == 2

MaxChunks == 5

MaxFresh == 130

MaxRetries == 2

MaxInflight == 3

\* the caption texts transcripts are made of: empty, short, and one with a
\* line break inside
LineSet == {<<>>, <<"a">>, <<"b", "c">>, <<"d", NL, "e">>}

Transcripts == UNION {[1..n -> LineSet] : n \in 0..MaxLines}

\* server(response_limit=...): None, non-positive, and positive limits
Limits == {<<>>} \cup {<<n>> : n \in -1..MaxLimit}

\* next_cursor arguments: absent, empty, every index up to past the end,
\* signed and padded numbers, sys.maxsize and its successor, and a non-number
Cursors ==
    {None, <<>>, <<"-", "1">>, <<"+", "1">>, <<"0", "2">>, <<"x">>,
     sys_maxsize, Upto(sys_maxsize, Len(sys_maxsize) - 1) \o <<"8">>}
      \cup {str(k) : k \in 0..(MaxLines + 1)}

NoRequest ==
    [url |-> None, lang |-> None, next_cursor |-> None, resolved |-> FALSE,
     video_id |-> None, page_got |-> FALSE, api_call |-> NoCall, hit |-> FALSE]

NoResponse ==
    [isError |-> FALSE, error |-> "NoResponse", message |-> None,
     title |-> None, transcript |-> None, next_cursor |-> None]

NoClient == [pc |-> "idle", cursor |-> None, transcript |-> <<>>, rounds |-> 0]

EmptyCounts == [k \in {} |-> 0]

\* a provider with English and French for abc and French alone for xyz
FixedProvider ==
    [v \in {ABC, XYZ} |->
        IF v = ABC
        THEN [l \in {EN, FR} |->
                IF l = EN THEN << <<"a">>, <<"b", "c">> >> ELSE << <<"d">> >>]
        ELSE [l \in {FR} |-> << <<"f">> >>]]

(***************************************************************************)
(* The server under one-off tool calls with any URL and language.          *)
(***************************************************************************)

InitServer(limits, providers) ==
    /\ response_limit \in limits
    /\ provider \in providers
    /\ cache = <<>>
    /\ page_gets = EmptyCounts
    /\ api_fetches = EmptyCounts
    /\ request = NoRequest
    /\ response = NoResponse
    /\ calls = 0
    /\ client = NoClient
    /\ inflight = EmptyCounts
    /\ overlap = EmptyCounts
    /\ recency = [since |-> -1, gap |-> -1]

Init == InitServer({<<>>, <<MaxLimit>>}, {FixedProvider})

\* a session calls get_transcript(url, lang), no cursor
get_transcript ==
    /\ calls < MaxCalls
    /\ \E url \in Urls, lang \in Langs, page \in Pages :
          Serve(url, lang, None, page)
    /\ calls' = calls + 1
    /\ UNCHANGED <<client, inflight, overlap, recency>>

Next == get_transcript

Spec == Init /\ [][Next]_vars

(***************************************************************************)
(* Pagination: one video, any transcript, any response limit.  Calls with  *)
(* any cursor, and a client that follows next_cursor as the test does.     *)
(***************************************************************************)

InitPage ==
    InitServer(Limits, {[v \in {ABC} |-> [l \in {EN} |-> t]] : t \in Transcripts})

\* get_transcript(url, next_cursor=cur) for any cursor string
get_transcript_at ==
    /\ client.pc = "idle"
    /\ calls < MaxCalls
    /\ \E cur \in Cursors : Serve(URL_WATCH, EN, cur, GoodPage)
    /\ calls' = calls + 1
    /\ UNCHANGED <<client, inflight, overlap, recency>>

\* transcript = ""; cursor = None
ClientBegin ==
    /\ client.pc = "idle"
    /\ client' = [pc |-> "paging", cursor |-> None, transcript |-> <<>>,
                  rounds |-> 0]
    /\ UNCHANGED <<response_limit, provider, cache, page_gets, api_fetches,
                   request, response, calls, inflight, overlap, recency>>

\* what one round of the client's loop makes of the response
ClientAfter(c, res) ==
    IF res.isError
    THEN [c EXCEPT !.pc = "failed", !.rounds = @ + 1]
    ELSE [pc         |-> IF res.next_cursor = None THEN "done" ELSE "paging",
          cursor     |-> res.next_cursor,
          transcript |-> c.transcript \o res.transcript \o <<NL>>,
          rounds     |-> c.rounds + 1]

\* one round of the loop: call with the cursor held, append the chunk and a
\* newline, stop when next_cursor is None
ClientStep ==
    /\ client.pc = "paging"
    /\ client.rounds < MaxChunks
    /\ Serve(URL_WATCH, EN, client.cursor, GoodPage)
    /\ client' = ClientAfter(client, response')
    /\ UNCHANGED <<calls, inflight, overlap, recency>>

\* transcript[:-1], what the client ends with
ClientResult == DropLast(client.transcript)

NextPage == get_transcript_at \/ ClientBegin \/ ClientStep

SpecPage == InitPage /\ [][NextPage]_vars

(***************************************************************************)
(* The cache over a long session: calls for one video (that of URL_WATCH)  *)
(* between calls for ever new videos youtu.be/1, youtu.be/2, ...           *)
(***************************************************************************)

HotKey == CacheKey(ABC, EN)

BadPage == [status |-> 404, title |-> None]

FreshUrl(n) == URL_SHORT_BARE \o str(n)

CacheProvider ==
    [v \in {ABC} \cup {str(n) : n \in 1..MaxFresh} |->
        [l \in {EN} |-> IF v = ABC THEN << <<"a">> >> ELSE <<>>]]

InitCache == InitServer({<<>>}, {CacheProvider})

\* the number of new videos called for so far
Fresh == Cardinality(DOMAIN page_gets \ {HotKey})

\* a call for the video of URL_WATCH; its fetch may fail
RequestHot ==
    /\ CacheIndex(cache, HotKey) > 0 \/ Count(page_gets, HotKey) <= MaxRetries
    /\ \E page \in {GoodPage, BadPage} : Serve(URL_WATCH, EN, None, page)
    /\ recency' = [since |-> IF response'.isError THEN recency.since ELSE 0,
                   gap   |-> recency.since]
    /\ UNCHANGED <<calls, client, inflight, overlap>>

\* a call for a video not called for before
RequestFresh ==
    /\ Fresh < MaxFresh
    /\ Serve(FreshUrl(Fresh + 1), EN, None, GoodPage)
    /\ recency' = [since |-> IF recency.since >= 0 THEN recency.since + 1 ELSE -1,
                   gap   |-> -1]
    /\ UNCHANGED <<calls, client, inflight, overlap>>

NextCache == RequestHot \/ RequestFresh

SpecCache == InitCache /\ [][NextCache]_vars

(***************************************************************************)
(* Tool calls in flight together.  The protocol layer starts a task per    *)
(* call; a task runs get_transcript, which has no await, from start to end *)
(* before the event loop runs another.                                     *)
(***************************************************************************)

ConcUrls == {URL_WATCH, URL_SHORT, URL_SHORT_UPPER}

\* the _get_transcript key a call's arguments come to
KeyOf(call) == CacheKey(VideoId(call.url).video_id, call.lang)

Pending(key) == {i \in DOMAIN inflight : KeyOf(inflight[i]) = key}

\* a call arrives while others are still waiting to run
ReceiveCall(call, key) ==
    /\ inflight' = [i \in DOMAIN inflight \cup {calls + 1} |->
                        IF i = calls + 1 THEN call ELSE inflight[i]]
    /\ calls' = calls + 1
    /\ overlap' = IF /\ key \notin DOMAIN overlap
                     /\ CacheIndex(cache, key) = 0
                     /\ Pending(key) # {}
                  THEN [k \in DOMAIN overlap \cup {key} |->
                          IF k = key
                          THEN [base |-> Count(page_gets, key), results |-> {}]
                          ELSE overlap[k]]
                  ELSE overlap
    /\ UNCHANGED <<response_limit, provider, cache, page_gets, api_fetches,
                   request, response, client, recency>>

Receive ==
    /\ calls < MaxInflight
    /\ \E url \in ConcUrls, lang \in {EN, FR} :
          ReceiveCall([url |-> url, lang |-> lang],
                      KeyOf([url |-> url, lang |-> lang]))

\* the event loop runs one of the waiting calls, whichever
RunCall(i, key) ==
    /\ \E page \in Pages : Serve(inflight[i].url, inflight[i].lang, None, page)
    /\ inflight' = [j \in DOMAIN inflight \ {i} |-> inflight[j]]
    /\ overlap' = IF key \in DOMAIN overlap
                  THEN [overlap EXCEPT ![key].results = @ \cup {response'}]
                  ELSE overlap
    /\ UNCHANGED <<calls, client, recency>>

Run == \E i \in DOMAIN inflight : RunCall(i, KeyOf(inflight[i]))

NextConc == Receive \/ Run

SpecConc == InitServer({<<>>}, {FixedProvider}) /\ [][NextConc]_vars

(***************************************************************************)
(* Properties of pagination (SpecPage).                                    *)
(***************************************************************************)

\* the server was started with response_limit unset or not positive
NoLimit == Len(response_limit) = 0 \/ response_limit[1] <= 0

\* the server was started with a positive response_limit
PositiveLimit == Len(response_limit) = 1 /\ response_limit[1] > 0

\* the last call returned a Transcript
Returned == response.error = ""

\* the lines of the one video of SpecPage
Lines == provider[ABC][EN]

\* what one call returns on a server started with response_limit -1
WholeTranscript ==
    ToolCall(cache, provider, <<-1>>, URL_WATCH, EN, None, GoodPage).response.transcript

\* C1: when the client that follows next_cursor from no cursor until it is
\* absent stops, the chunks it was given, each followed by a newline and the
\* last newline dropped, are exactly the transcript one call returns on a
\* server with response_limit <= 0, for every transcript and positive limit.
C1_RoundTrip ==
    (client.pc = "done" /\ PositiveLimit)
        => ClientResult = WholeTranscript

\* C1's case: a transcript delivered in three chunks or more
C1_Witness ==
    /\ client.pc = "done"
    /\ PositiveLimit
    /\ client.rounds >= 3
    /\ ClientResult = join(NL, Lines)

\* C2: with a positive response_limit, the transcript field of every
\* response is at most response_limit long, whatever the transcript, the
\* line lengths and the cursor.
C2_WithinLimit ==
    (Returned /\ PositiveLimit)
        => Len(response.transcript) <= response_limit[1]

\* C2's case: a call with a cursor whose chunk is cut by the limit and is as
\* long as a chunk gets
C2_Witness ==
    /\ Returned
    /\ PositiveLimit
    /\ request.next_cursor = <<"1">>
    /\ response.next_cursor # None
    /\ Len(response.transcript) = response_limit[1] - 1

\* the cursor of the last call is str(k) for an index k
CursorIsIndex == request.next_cursor \in {str(k) : k \in 0..(MaxLines + 1)}

\* lines[k:] for the index k a cursor string encodes
LinesFrom(cursor) == From(Lines, StartIndex(Lines, int(cursor)))

\* C6 as claimed: with response_limit unset or non-positive, a call with the
\* cursor of index k returns the lines from k onward joined by newlines and
\* no next_cursor.
C6_FromCursor ==
    (request.resolved /\ NoLimit /\ CursorIsIndex)
        => /\ Returned
           /\ response.transcript = join(NL, LinesFrom(request.next_cursor))
           /\ response.next_cursor = None

\* C6 as amended: with response_limit unset or non-positive, every call,
\* whatever its cursor (an index, a non-number, none), returns all lines of
\* the transcript from index 0 joined by newlines and no next_cursor.
C6_WholeTranscript ==
    (request.resolved /\ NoLimit)
        => /\ Returned
           /\ response.transcript = join(NL, Lines)
           /\ response.next_cursor = None

\* C6's case: a cursor of index 1 on a transcript of two lines or more, where
\* the lines from index 1 are not what comes back
C6_Witness ==
    /\ request.resolved
    /\ NoLimit
    /\ request.next_cursor = <<"1">>
    /\ Len(Lines) >= 2
    /\ response.transcript = join(NL, Lines)
    /\ response.transcript # join(NL, LinesFrom(request.next_cursor))

\* C7 as claimed: the paging client never receives a response whose
\* next_cursor is the cursor it just supplied.
C7_Progress ==
    (client.pc = "paging" /\ client.rounds >= 1)
        => response.next_cursor # request.next_cursor

\* the start index of the last call's cursor is a number >= the line count
PastEnd ==
    /\ StartOf(request.next_cursor).ok
    /\ ~StartOf(request.next_cursor).neg
    /\ ~DigitsGreater(str(Len(Lines)), StartOf(request.next_cursor).digits)

\* C8 as claimed: a cursor whose start index is at or past the number of
\* lines (0 lines included) returns an empty transcript and no next_cursor.
C8_EmptyPastEnd ==
    (request.resolved /\ PastEnd)
        => /\ Returned
           /\ response.transcript = <<>>
           /\ response.next_cursor = None

\* C8 as amended: with a positive response_limit, a start index at or past
\* the number of lines and at most sys.maxsize returns an empty transcript
\* and no next_cursor, and one above sys.maxsize is a tool error (islice
\* raises); with response_limit unset or non-positive the cursor is not read
\* and the whole transcript comes back with no next_cursor.
C8_PastEndByLimit ==
    (request.resolved /\ PastEnd)
        => IF NoLimit
           THEN /\ Returned
                /\ response.transcript = join(NL, Lines)
                /\ response.next_cursor = None
           ELSE IF DigitsGreater(StartOf(request.next_cursor).digits, sys_maxsize)
           THEN response.isError /\ response.error = "ValueError"
           ELSE /\ Returned
                /\ response.transcript = <<>>
                /\ response.next_cursor = None

\* C8's case: the cursor just past the last of two or more lines, under a
\* limit the last line fits in
C8_Witness ==
    /\ request.resolved
    /\ PositiveLimit
    /\ Len(Lines) >= 2
    /\ request.next_cursor = str(Len(Lines))
    /\ Len(Lines[Len(Lines)]) + 1 <= response_limit[1]
    /\ Returned
    /\ response.transcript = <<>>
    /\ response.next_cursor = None

(***************************************************************************)
(* Properties of URL resolution and language fallback (Spec).              *)
(***************************************************************************)

\* the name of a query field: what precedes its "=", decoded
FieldName(field) ==
    IF Find(field, "=") = 0 THEN unquote(PlusToSpace(field))
    ELSE unquote(PlusToSpace(Upto(field, Find(field, "=") - 1)))

\* the URL's query has a field named v
HasVParam(url) ==
    /\ Len(urlparse(url).query) > 0
    /\ \E i \in 1..Len(Split(urlparse(url).query, "&")) :
          FieldName(Split(urlparse(url).query, "&")[i]) = <<"v">>

\* the text is somewhere in the message
Carries(message, text) ==
    \E i \in 0..(Len(message) - Len(text)) :
        SubSeq(message, i + 1, i + Len(text)) = text

\* C4: a call with a URL whose host is not youtu.be and whose query has no v
\* parameter fails with the invalid-URL ValueError, whose message carries the
\* URL as given, reported as a tool error; nothing is fetched for it.
C4_InvalidUrl ==
    (request.url # None
        /\ hostname(urlparse(request.url)) # YOUTU_BE
        /\ ~HasVParam(request.url))
        => /\ response.isError
           /\ response.error = "ValueError"
           /\ Carries(response.message, request.url)
           /\ ~request.page_got
           /\ ~request.api_call.made

\* C4's case: watch?vv=abc
C4_Witness ==
    /\ request.url = URL_WRONG_PARAM
    /\ response.isError
    /\ response.message = InvalidUrlMessage(URL_WRONG_PARAM)

\* C5: the language list handed to the transcript provider is ["en"] for a
\* request in "en" and [requested, "en"] otherwise; and a request in a
\* language the video has no transcript in, for a video that has an English
\* one, returns the English transcript and no error.
C5_LanguageFallback ==
    request.api_call.made
        => /\ request.api_call.languages =
                 IF request.lang = <<"e", "n">> THEN << <<"e", "n">> >>
                 ELSE <<request.lang, <<"e", "n">> >>
           /\ (/\ request.video_id \in DOMAIN provider
               /\ request.lang \notin DOMAIN provider[request.video_id]
               /\ <<"e", "n">> \in DOMAIN provider[request.video_id])
                 => /\ Returned
                    /\ cache[Len(cache)].value.lines
                         = provider[request.video_id][<<"e", "n">>]
                    /\ response.transcript
                         = Paginate(response.title,
                                    provider[request.video_id][<<"e", "n">>],
                                    request.next_cursor, response_limit).transcript

\* C5's case: a request in "xx" for a video with English and French only
C5_Witness ==
    /\ request.api_call.made
    /\ request.lang = XX
    /\ request.video_id = ABC
    /\ request.api_call.languages = <<XX, EN>>
    /\ NoLimit
    /\ response.transcript = join(NL, provider[ABC][EN])

\* C10 as claimed: every video id the tool passes on to _get_transcript is a
\* non-empty string; a URL either yields one or fails before any fetch.
C10_NonEmptyId ==
    /\ request.resolved => Len(request.video_id) > 0
    /\ (request.page_got \/ request.api_call.made) => request.resolved

(***************************************************************************)
(* Properties of the cache (SpecCache, SpecConc).                          *)
(***************************************************************************)

C9_Coalesced ==
    \A key \in DOMAIN overlap :
        /\ Count(page_gets, key) - overlap[key].base <= 1
        /\ Cardinality(overlap[key].results) <= 1
        /\ Pending(key) = {} => Count(page_gets, key) - overlap[key].base = 1

=============================================================================
